---- MODULE Spec2Model ----
(***************************************************************************)
(* A model of three combinators of futures-util:                           *)
(*   - Join, Join3, Join4, Join5   (future/join.rs)                        *)
(*   - Chain                       (io/chain.rs)                           *)
(*   - SpawnExt / LocalSpawnExt    (task/spawn.rs)                         *)
(* Each combinator has its own specification (JoinSpec, ChainSpec,         *)
(* SpawnSpec); the variables of the other two stay at their initial value. *)
(***************************************************************************)
EXTENDS Integers, Sequences, FiniteSets, TLC

\* ------------------------------------------------------------------ bounds
\* The largest number of polls an operand needs before it reports ready.
MaxDelay == 3
\* How many polls the driver makes beyond MaxDelay (polls after completion).
ExtraPolls == 2
\* Smallest and largest arity generated by the generate! macro.
MinArity == 2
MaxArity == 5

\* The outputs an operand may produce.
Outputs == {41, 42}

\* The longest first and second source of a Chain, the largest destination
\* segment, and the number of read calls made on one Chain.
MaxFirstLen == 3
MaxSecondLen == 3
MaxBuf == 2
MaxReads == 5
\* The number of polls of one observer handle.
MaxHandlePolls == 3

\* The errors the task-launching facility may answer a launch with.
SpawnErrors == {"Shutdown", "Rejected"}

\* The errors a source may report.
IoErrors == {"Interrupted", "BrokenPipe"}

VARIABLES
    \* ---- Join-N
    Fut,        \* Fut[i]: the MaybeDone holder of operand i (Fut1..FutN)
    jDelay,     \* jDelay[i]: the poll of operand i's future that returns Ready
    jOut,       \* jOut[i]: the output operand i's future produces
    jPolled,    \* operands whose underlying future was polled in the last turn, in order
    jPolls,     \* jPolls[i]: polls of operand i's underlying future so far
    jTakes,     \* jTakes[i]: take_output calls on holder i so far
    jLog,       \* the result of every Join::poll call so far, in order
    \* ---- Chain
    first,      \* the bytes the first source has still to produce
    second,     \* the bytes the second source has still to produce
    done_first, \* Chain::done_first
    cLen,       \* cLen.first, cLen.second: the lengths the sources started with
    cCall,      \* what the last operation on the Chain did and returned
    cDelivered, \* the bytes returned by the read calls so far, in order
    cReads,     \* the number of poll_read / poll_read_vectored calls so far
    cFlips,     \* the number of times done_first went from false to true
    cHistory,   \* "unit": only 1-byte poll_read calls answered Ok so far;
                \* "plain": only non-empty poll_read calls answered Ok; "mixed"
    cVectored,  \* only poll_read_vectored calls with two full segments so far,
                \* each source polled answering Ok with all the bytes it can give
    \* ---- spawn bridge
    sCall,      \* the spawn call made: its operation, the facility's answer, its result
    sTask,      \* the task handed to the facility
    sChan,      \* the one-shot channel from the spawned task to the handle
    sHandle,    \* the observer handle: "none", "held", "resolved", "dropped"
    hLog        \* the result of every poll of the handle so far, in order

joinVars == <<Fut, jDelay, jOut, jPolled, jPolls, jTakes, jLog>>

chainVars == <<first, second, done_first, cLen, cCall, cDelivered, cReads, cFlips,
               cHistory, cVectored>>

spawnVars == <<sCall, sTask, sChan, sHandle, hLog>>

vars == <<joinVars, chainVars, spawnVars>>

\* No operation has been made on the Chain yet.
NoCall ==
    [op |-> "none", want |-> 0, nonempty |-> FALSE, doneBefore |-> FALSE,
     touchedFirst |-> FALSE, touchedSecond |-> FALSE,
     firstRes |-> [kind |-> "None", n |-> 0, err |-> "none"],
     secondRes |-> [kind |-> "None", n |-> 0, err |-> "none"],
     result |-> [kind |-> "None", n |-> 0, err |-> "none"]]

\* The Chain of a behaviour that is about another combinator.
ChainIdle ==
    /\ first = <<>>
    /\ second = <<>>
    /\ done_first = FALSE
    /\ cLen = [first |-> 0, second |-> 0]
    /\ cCall = NoCall
    /\ cDelivered = <<>>
    /\ cReads = 0
    /\ cFlips = 0
    /\ cHistory = "unit"
    /\ cVectored = TRUE

\* No spawn call has been made yet.
NoSpawn ==
    [op |-> "none", launch |-> [ok |-> FALSE, err |-> "none"],
     result |-> [ok |-> FALSE, err |-> "none", handle |-> FALSE]]
NoTask == [state |-> "none", wrapped |-> FALSE, rem |-> 0, out |-> 0, panicked |-> FALSE]
NoChan == [full |-> FALSE, value |-> 0, sent |-> 0, received |-> 0]

\* The spawn bridge of a behaviour that is about another combinator.
SpawnIdle ==
    /\ sCall = NoSpawn
    /\ sTask = NoTask
    /\ sChan = NoChan
    /\ sHandle = "none"
    /\ hLog = <<>>

\* The Join of a behaviour that is about another combinator.
JoinIdle ==
    /\ Fut = <<>>
    /\ jDelay = <<>>
    /\ jOut = <<>>
    /\ jPolled = <<>>
    /\ jPolls = <<>>
    /\ jTakes = <<>>
    /\ jLog = <<>>

\* ------------------------------------------------------------------ helpers
Max(S) == CHOOSE x \in S : \A y \in S : y <= x

Range(f) == {f[i] : i \in DOMAIN f}

\* The ascending sequence of the elements of a finite set of integers.
RECURSIVE Ascending(_)
Ascending(S) ==
    IF S = {} THEN <<>>
    ELSE LET m == CHOOSE x \in S : \A y \in S : x <= y
         IN <<m>> \o Ascending(S \ {m})

\* ------------------------------------------------------------------ MaybeDone
\* The holder of one operand: Future(f), Done(output) or Gone.  The wrapped
\* future is described by the polls it still needs (rem) and its output.
HolderFuture(d, v) == [tag |-> "Future", rem |-> d, val |-> v]
HolderDone(v)      == [tag |-> "Done", rem |-> 0, val |-> v]
HolderGone         == [tag |-> "Gone", rem |-> 0, val |-> 0]

\* maybe_done(future)
maybe_done(d, v) == HolderFuture(d, v)

\* MaybeDone::poll: a Future is polled once and becomes Done when it is ready,
\* a Done holder reports ready without polling, a Gone holder panics.
HolderPoll(h) ==
    CASE h.tag = "Future" ->
            IF h.rem <= 1
            THEN [slot |-> HolderDone(h.val), res |-> "Ready", polled |-> TRUE]
            ELSE [slot |-> [h EXCEPT !.rem = @ - 1], res |-> "Pending", polled |-> TRUE]
      [] h.tag = "Done" -> [slot |-> h, res |-> "Ready", polled |-> FALSE]
      [] OTHER -> [slot |-> h, res |-> "Panic", polled |-> FALSE]

\* MaybeDone::take_output: Some(output) of a Done holder, which becomes Gone;
\* None otherwise.
HolderTake(h) ==
    IF h.tag = "Done"
    THEN [slot |-> HolderGone, some |-> TRUE, val |-> h.val]
    ELSE [slot |-> h, some |-> FALSE, val |-> 0]

\* ------------------------------------------------------------------ Join::poll
\* `all_done |= ready`, the slip that `&=` is compared with.
AndAssignOr(acc, ready) == acc \/ ready

\* `all_done = false`, whatever the operand reported.
AndAssignClears(acc, ready) == FALSE

\* all_done &= ready
AndAssign(acc, ready) == acc /\ ready

\* Whether a statement of the poll loop evaluates its right-hand side, given
\* all_done so far: `&=` always does, where `all_done = all_done && ...` would
\* stop polling at the first operand that is not ready.
EvaluatesShortCircuit(acc) == acc

Evaluates(acc) == TRUE

\* An expansion that polls its operand a second time within the turn.
PollStepPollsAgain(st, i) ==
    LET r0 == HolderPoll(st.Fut[i])
        r == HolderPoll(r0.slot)
    IN [st EXCEPT !.Fut[i] = r.slot,
                  !.all_done = AndAssign(@, r.res = "Ready"),
                  !.polled = @ \o (IF r0.polled THEN <<i>> ELSE <<>>)
                               \o (IF r.polled THEN <<i>> ELSE <<>>),
                  !.panic = (r.res = "Panic")]

\* One expansion of `all_done &= self.as_mut().$Fut().poll(cx).is_ready();`
PollStep(st, i) ==
    IF ~Evaluates(st.all_done) THEN st
    ELSE LET r == HolderPoll(st.Fut[i])
         IN [st EXCEPT !.Fut[i] = r.slot,
                       !.all_done = AndAssign(@, r.res = "Ready"),
                       !.polled = IF r.polled THEN Append(@, i) ELSE @,
                       !.panic = (r.res = "Panic")]

\* A loop that leaves at the first operand that is not ready, without polling
\* the operands after it.
RECURSIVE PollFromStopsAtPending(_, _)
PollFromStopsAtPending(st0, i) ==
    CHOOSE r \in {IF i > Len(st.Fut) \/ st.panic \/ ~st.all_done THEN st
                  ELSE PollFromStopsAtPending(PollStep(st, i), i + 1) : st \in {st0}} : TRUE

\* The macro repetition $( ... )* over Fut1..FutN, in declaration order; a
\* panic unwinds out of the call.  (st is the value of st0, computed once.)
RECURSIVE PollFrom(_, _)
PollFrom(st0, i) ==
    CHOOSE r \in {IF i > Len(st.Fut) \/ st.panic THEN st
                  ELSE PollFrom(PollStep(st, i), i + 1) : st \in {st0}} : TRUE

\* A tuple whose second position takes from Fut1 again.
TakeOrderFirstTwice(n) == [i \in 1..n |-> IF i = 2 THEN 1 ELSE i]

\* The holder each position of the result tuple is taken from: position i
\* from $Fut number i.
TakeOrder(n) == [i \in 1..n |-> i]

\* One element of the tuple: self.as_mut().$Fut().take_output().unwrap()
TakeStep(st, pos) ==
    LET i == TakeOrder(Len(st.Fut))[pos]
        t == HolderTake(st.Fut[i])
    IN [st EXCEPT !.Fut[i] = t.slot,
                  !.takes[i] = @ + 1,
                  !.tuple = IF t.some THEN Append(@, t.val) ELSE @,
                  !.panic = ~t.some]

RECURSIVE TakeFrom(_, _)
TakeFrom(st0, pos) ==
    CHOOSE r \in {IF pos > Len(st.Fut) \/ st.panic THEN st
                  ELSE TakeFrom(TakeStep(st, pos), pos + 1) : st \in {st0}} : TRUE

\* The whole body of Join::poll on the holders F with take counters T.
JoinPollBody(F, T) ==
    LET start == [Fut |-> F, all_done |-> TRUE, polled |-> <<>>, panic |-> FALSE,
                  takes |-> T, tuple |-> <<>>]
        polledAll == PollFrom(start, 1)
    IN IF polledAll.panic THEN [polledAll EXCEPT !.all_done = FALSE]
       ELSE IF polledAll.all_done THEN TakeFrom(polledAll, 1)
       ELSE polledAll

JoinResult(st) ==
    IF st.panic THEN [kind |-> "Panic", value |-> <<>>]
    ELSE IF st.all_done THEN [kind |-> "Ready", value |-> st.tuple]
    ELSE [kind |-> "Pending", value |-> <<>>]

MaxTurns == MaxDelay + ExtraPolls

\* Join::new: every operand wrapped by maybe_done.
JoinInit ==
    \E n \in MinArity..MaxArity :
        /\ jDelay \in [1..n -> 1..MaxDelay]
        /\ jOut \in [1..n -> Outputs]
        /\ Fut = [i \in 1..n |-> maybe_done(jDelay[i], jOut[i])]
        /\ jPolled = <<>>
        /\ jPolls = [i \in 1..n |-> 0]
        /\ jTakes = [i \in 1..n |-> 0]
        /\ jLog = <<>>
        /\ ChainIdle
        /\ SpawnIdle

\* One call of Join::poll by the driver.
JoinPoll ==
    /\ Len(jLog) < MaxTurns
    /\ \E st \in {JoinPollBody(Fut, jTakes)} :
          /\ Fut' = st.Fut
          /\ jPolled' = st.polled
          /\ jPolls' = [i \in DOMAIN jPolls |->
                          jPolls[i] + (IF i \in Range(st.polled) THEN 1 ELSE 0)]
          /\ jTakes' = st.takes
          /\ jLog' = Append(jLog, JoinResult(st))
    /\ UNCHANGED <<jDelay, jOut, chainVars, spawnVars>>

JoinNext == JoinPoll

JoinSpec == JoinInit /\ [][JoinNext]_vars

\* The driver keeps polling the Join.
FairJoinSpec == JoinSpec /\ WF_vars(JoinPoll)

\* ------------------------------------------------------------------ Join claims
\* The turn at which every operand has reported ready.
AllReadyTurn == Max(Range(jDelay))

\* C1: a Join-N poll returns Pending on every turn before all operands have
\* reported ready, and Ready on the first turn at which all of them are ready,
\* with operand i's value at position i of the aggregate.
C1_PendingThenReadyInOrder ==
    \A t \in 1..Len(jLog) :
        /\ t < AllReadyTurn => jLog[t] = [kind |-> "Pending", value |-> <<>>]
        /\ t = AllReadyTurn => jLog[t] = [kind |-> "Ready", value |-> jOut]

\* C1 witness: A ready after 1 poll, B after 3 polls: Pending, Pending, Ready((a, b)).
C1_Witness ==
    /\ jDelay = <<1, 3>>
    /\ jOut = <<41, 42>>
    /\ Len(jLog) = 3
    /\ jLog[1].kind = "Pending"
    /\ jLog[2].kind = "Pending"
    /\ jLog[3] = [kind |-> "Ready", value |-> <<41, 42>>]

\* C2: each Join-N poll call polls the future of every operand that has not
\* yet reported ready exactly once, in declaration order 1..N, also the
\* operands that follow one that reported Pending in that turn.
C2_EveryPendingOperandAdvanced ==
    [][ /\ jPolled' = Ascending({i \in DOMAIN Fut : Fut[i].tag = "Future"})
        /\ \A i \in DOMAIN Fut :
              jPolls'[i] = jPolls[i] + (IF Fut[i].tag = "Future" THEN 1 ELSE 0) ]_vars

\* C2 witness: of three operands the first is still pending after the turn,
\* the second was ready before it, and the third was advanced all the same.
C2_Witness ==
    /\ DOMAIN Fut = 1..3
    /\ Fut[1].tag = "Future"
    /\ Fut[2].tag = "Done"
    /\ jPolled = <<1, 3>>
    /\ jPolls[2] < jPolls[3]

ReadyTurns == {t \in 1..Len(jLog) : jLog[t].kind = "Ready"}

\* C3: over any sequence of polls, also after Ready was returned, no operand's
\* value is taken more than once and Ready is returned at most once; the
\* completing turn takes each value exactly once and every later poll panics.
C3_TakenOnceReadyOnce ==
    /\ \A i \in DOMAIN jTakes : jTakes[i] <= 1
    /\ Cardinality(ReadyTurns) <= 1
    /\ \A t \in ReadyTurns :
          /\ \A i \in DOMAIN jTakes : jTakes[i] = 1
          /\ \A u \in (t + 1)..Len(jLog) : jLog[u].kind = "Panic"
    /\ (ReadyTurns = {}) => \A i \in DOMAIN jTakes : jTakes[i] = 0

\* C3 witness: a Join3 polled twice after it returned Ready.
C3_Witness ==
    /\ DOMAIN Fut = 1..3
    /\ \E t \in ReadyTurns : Len(jLog) = t + 2 /\ jLog[t + 1].kind = "Panic"
    /\ \A i \in DOMAIN Fut : Fut[i].tag = "Gone" /\ jTakes[i] = 1

\* C14: within one Join-N poll the future of an operand is polled at most
\* once, and the future of an operand that has reported ready is never polled
\* again in a later turn: an operand that needs d polls is polled once in each
\* of the first d turns and d times in all.
C14_PolledOncePerTurnNeverAfterReady ==
    /\ \A a, b \in DOMAIN jPolled : a # b => jPolled[a] # jPolled[b]
    /\ \A i \in DOMAIN Fut :
          /\ jPolls[i] <= Len(jLog)
          /\ jPolls[i] <= jDelay[i]
          /\ Fut[i].tag # "Future" => jPolls[i] = jDelay[i]
          /\ (Fut[i].tag # "Future" /\ jDelay[i] < Len(jLog)) => i \notin Range(jPolled)

\* C14 witness: the first operand was ready after one poll and the second
\* turn polled the second operand only.
C14_Witness ==
    /\ jDelay = <<1, 3>>
    /\ Len(jLog) = 2
    /\ jPolled = <<2>>
    /\ jPolls = <<1, 2>>
    /\ Fut[1].tag = "Done"

\* C19: after k polls of a Join-N that has not completed, every operand that
\* is still pending has been polled exactly k times, and when the driver keeps
\* polling, the Join-N eventually returns Ready.
C19_ProgressInStep ==
    /\ [](\A i \in DOMAIN Fut :
            ((\A t \in 1..Len(jLog) : jLog[t].kind = "Pending") /\ Fut[i].tag = "Future")
                => jPolls[i] = Len(jLog))
    /\ <>(ReadyTurns # {})

\* C19 witness: after two polls three operands, of which the second is ready
\* and the others are not, the third was polled twice like the first.
C19_Witness ==
    /\ jDelay = <<3, 2, 3>>
    /\ Len(jLog) = 2
    /\ Fut[1].tag = "Future"
    /\ Fut[3].tag = "Future"
    /\ jPolls = <<2, 2, 2>>

\* ------------------------------------------------------------------ byte sources
Min(a, b) == IF a < b THEN a ELSE b

Take(s, n) == SubSeq(s, 1, Min(n, Len(s)))

Drop(s, n) == SubSeq(s, Min(n, Len(s)) + 1, Len(s))

RECURSIVE Sum(_)
Sum(s) == IF s = <<>> THEN 0 ELSE Head(s) + Sum(Tail(s))

\* Poll<io::Result<usize>> (the length of the buffer, for poll_fill_buf).
Ok(n) == [kind |-> "Ok", n |-> n, err |-> "none"]
Pending == [kind |-> "Pending", n |-> 0, err |-> "none"]
Err(e) == [kind |-> "Err", n |-> 0, err |-> e]
NotPolled == [kind |-> "None", n |-> 0, err |-> "none"]

\* What AsyncRead::poll_read (or poll_read_vectored) of a source holding `data`
\* may return for a destination of `want` bytes in all: some bytes, 0 when
\* nothing is asked or nothing is left, Pending, or an error.
SourceRead(data, want) ==
    {Ok(n) : n \in IF want = 0 \/ data = <<>> THEN {0} ELSE 1..Min(want, Len(data))}
        \cup {Pending} \cup {Err(e) : e \in IoErrors}

\* What AsyncBufRead::poll_fill_buf of a source holding `data` may return: a
\* non-empty buffer while data is left, the empty buffer at the end.
SourceFill(data) ==
    {Ok(n) : n \in IF data = <<>> THEN {0} ELSE 1..Min(MaxBuf, Len(data))}
        \cup {Pending} \cup {Err(e) : e \in IoErrors}

\* The destinations of a vectored read, each the lengths of its segments: no
\* segment, empty segments only, an empty segment before or after a non-empty
\* one, and two full segments.
BufVecs == {<<>>, <<0>>, <<0, 0>>, <<1>>, <<0, 1>>, <<1, 0>>, <<MaxBuf, MaxBuf>>}

\* ------------------------------------------------------------------ Chain
\* Chain::new
ChainNew(a, b) ==
    /\ first = [i \in 1..a |-> i]
    /\ second = [i \in 1..b |-> a + i]
    /\ done_first = FALSE
    /\ cLen = [first |-> a, second |-> b]

\* The match arm `0 => ...` without its guard.
BufNonEmptyAlways(buf) == TRUE

\* !buf.is_empty()
BufNonEmpty(buf) == buf # 0

\* A test that looks at the first segment only.
AnyNonEmptyFirstOnly(bufs) == bufs # <<>> /\ bufs[1] # 0

\* bufs.iter().any(|b| !b.is_empty())
AnyNonEmpty(bufs) == \E i \in DOMAIN bufs : bufs[i] # 0

\* A return of the first source's answer that gives the first source up when
\* the answer is an error.
ReturnFirstAbandonsOnError(r1) ==
    [done |-> (r1.kind = "Err"), touchedFirst |-> TRUE, touchedSecond |-> FALSE,
     result |-> r1]

\* The three ways through a read or fill call, given done_first on entry:
\* the first source's answer is returned, or done_first is set and the second
\* source is polled in the same call, or only the second source is polled.
ReturnFirst(r1) ==
    [done |-> FALSE, touchedFirst |-> TRUE, touchedSecond |-> FALSE, result |-> r1]
SwitchToSecond(r2) ==
    [done |-> TRUE, touchedFirst |-> TRUE, touchedSecond |-> TRUE, result |-> r2]
OnlySecond(r2) ==
    [done |-> TRUE, touchedFirst |-> FALSE, touchedSecond |-> TRUE, result |-> r2]

\* A poll_read that sets done_first and returns Pending at the boundary,
\* leaving the second source to the next call.
PollReadSuspends(done, buf, r1, r2) ==
    IF ~done
    THEN IF r1.kind = "Ok" /\ r1.n = 0 /\ BufNonEmpty(buf)
         THEN [done |-> TRUE, touchedFirst |-> TRUE, touchedSecond |-> FALSE,
               result |-> Pending]
         ELSE ReturnFirst(r1)
    ELSE OnlySecond(r2)

\* A poll_read that returns the first source's Ok(0) as it is.
PollReadNeverSwitches(done, buf, r1, r2) ==
    IF ~done THEN ReturnFirst(r1) ELSE OnlySecond(r2)

\* Chain::poll_read with done_first = done and a destination of buf bytes,
\* where the first source answers r1 and the second r2 when they are polled.
PollRead(done, buf, r1, r2) ==
    IF ~done
    THEN IF r1.kind = "Ok" /\ r1.n = 0 /\ BufNonEmpty(buf)
         THEN SwitchToSecond(r2)
         ELSE ReturnFirst(r1)
    ELSE OnlySecond(r2)

\* A poll_read_vectored that goes on to the second source when the first is
\* not ready, without setting done_first.
PollReadVectoredFallsThrough(done, bufs, r1, r2) ==
    IF ~done
    THEN IF r1.kind = "Ok" /\ r1.n = 0 /\ AnyNonEmpty(bufs)
         THEN SwitchToSecond(r2)
         ELSE IF r1.kind = "Pending"
              THEN [done |-> FALSE, touchedFirst |-> TRUE, touchedSecond |-> TRUE,
                    result |-> r2]
              ELSE ReturnFirst(r1)
    ELSE OnlySecond(r2)

\* A poll_read_vectored that returns the first source's Ok(0) as it is.
PollReadVectoredNeverSwitches(done, bufs, r1, r2) ==
    IF ~done THEN ReturnFirst(r1) ELSE OnlySecond(r2)

\* Chain::poll_read_vectored, bufs the lengths of the destination segments.
PollReadVectored(done, bufs, r1, r2) ==
    IF ~done
    THEN IF r1.kind = "Ok" /\ r1.n = 0 /\ AnyNonEmpty(bufs)
         THEN SwitchToSecond(r2)
         ELSE ReturnFirst(r1)
    ELSE OnlySecond(r2)

\* A poll_fill_buf that sets done_first and hands the first source's empty
\* buffer to the caller.
PollFillBufReturnsEmpty(done, r1, r2) ==
    IF ~done
    THEN IF r1.kind = "Ok" /\ r1.n = 0
         THEN [done |-> TRUE, touchedFirst |-> TRUE, touchedSecond |-> FALSE,
               result |-> r1]
         ELSE ReturnFirst(r1)
    ELSE OnlySecond(r2)

\* A poll_fill_buf that returns the second source's buffer at the boundary
\* without setting done_first.
PollFillBufForgetsSwitch(done, r1, r2) ==
    IF ~done
    THEN IF r1.kind = "Ok" /\ r1.n = 0
         THEN [done |-> FALSE, touchedFirst |-> TRUE, touchedSecond |-> TRUE,
               result |-> r2]
         ELSE ReturnFirst(r1)
    ELSE OnlySecond(r2)

\* Chain::poll_fill_buf, r1.n and r2.n the lengths of the sources' buffers.
PollFillBuf(done, r1, r2) ==
    IF ~done
    THEN IF r1.kind = "Ok" /\ r1.n = 0
         THEN SwitchToSecond(r2)
         ELSE ReturnFirst(r1)
    ELSE OnlySecond(r2)

\* A consume that forwards to the first source whatever done_first is.
ConsumeAlwaysFirst(done) ==
    [done |-> done, touchedFirst |-> TRUE, touchedSecond |-> FALSE, result |-> NotPolled]

\* A consume that acknowledges the amount to both sources.
ConsumeBoth(done) ==
    [done |-> done, touchedFirst |-> TRUE, touchedSecond |-> TRUE, result |-> NotPolled]

\* Chain::consume: the source the amount is forwarded to.
Consume(done) ==
    IF ~done
    THEN [done |-> done, touchedFirst |-> TRUE, touchedSecond |-> FALSE,
          result |-> NotPolled]
    ELSE [done |-> done, touchedFirst |-> FALSE, touchedSecond |-> TRUE,
          result |-> NotPolled]

\* Whether every source polled in the call answered Ok.
AllOk(o, r1, r2) ==
    /\ o.touchedFirst => r1.kind = "Ok"
    /\ o.touchedSecond => r2.kind = "Ok"

\* Whether every source polled in the call answered with as many bytes as
\* the destination of `want` bytes and its data allow.
AllFull(o, r1, r2, want) ==
    /\ AllOk(o, r1, r2)
    /\ o.touchedFirst => r1.n = Min(want, Len(first))
    /\ o.touchedSecond => r2.n = Min(want, Len(second))

\* The effect of one operation that went the way `o`: n1 and n2 bytes leave
\* the first and the second source, and the caller finds in its destination
\* what the source polled last wrote there.
ChainEffect(op, want, nonempty, o, r1, r2, n1, n2) ==
    LET written == IF o.touchedSecond /\ n2 > 0
                   THEN Take(second, n2) \o Drop(Take(first, n1), n2)
                   ELSE Take(first, n1)
        reads == op \in {"poll_read", "poll_read_vectored"}
    IN /\ first' = Drop(first, n1)
       /\ second' = Drop(second, n2)
       /\ done_first' = o.done
       /\ cCall' = [op |-> op, want |-> want, nonempty |-> nonempty,
                    doneBefore |-> done_first,
                    touchedFirst |-> o.touchedFirst,
                    touchedSecond |-> o.touchedSecond,
                    firstRes |-> IF o.touchedFirst THEN r1 ELSE NotPolled,
                    secondRes |-> IF o.touchedSecond THEN r2 ELSE NotPolled,
                    result |-> o.result]
       /\ cDelivered' = IF reads /\ o.result.kind = "Ok"
                        THEN cDelivered \o Take(written, o.result.n)
                        ELSE cDelivered
       /\ cReads' = cReads + (IF reads THEN 1 ELSE 0)
       /\ cFlips' = cFlips + (IF ~done_first /\ o.done THEN 1 ELSE 0)
       /\ cHistory' = IF op = "poll_read" /\ want >= 1 /\ AllOk(o, r1, r2)
                         /\ cHistory # "mixed"
                      THEN (IF want = 1 THEN cHistory ELSE "plain")
                      ELSE "mixed"
       /\ cVectored' = (/\ cVectored
                        /\ op = "poll_read_vectored"
                        /\ want = 2 * MaxBuf
                        /\ AllFull(o, r1, r2, want))
       /\ UNCHANGED <<cLen, joinVars, spawnVars>>

\* The bytes a read call moves out of a source: those it answered with.
Moved(touched, r) == IF touched /\ r.kind = "Ok" THEN r.n ELSE 0

\* The answers of a source count only in a call that polls it: the first
\* source is polled when done_first is false on entry, the second when the
\* call goes the way `o`.
FirstAnswers(answers) == IF done_first THEN {NotPolled} ELSE answers
SecondAnswers(o, answers) == IF o.touchedSecond THEN answers ELSE {NotPolled}

ChainInit ==
    /\ \E a \in 0..MaxFirstLen, b \in 0..MaxSecondLen : ChainNew(a, b)
    /\ cCall = NoCall
    /\ cDelivered = <<>>
    /\ cReads = 0
    /\ cFlips = 0
    /\ cHistory = "unit"
    /\ cVectored = TRUE
    /\ JoinIdle
    /\ SpawnIdle

\* One call of Chain::poll_read.
ChainPollRead ==
    /\ cReads < MaxReads
    /\ \E buf \in 0..MaxBuf :
       \E r1 \in FirstAnswers(SourceRead(first, buf)) :
       \E r2 \in SecondAnswers(PollRead(done_first, buf, r1, NotPolled),
                               SourceRead(second, buf)) :
          LET o == PollRead(done_first, buf, r1, r2)
          IN ChainEffect("poll_read", buf, buf # 0, o, r1, r2,
                         Moved(o.touchedFirst, r1), Moved(o.touchedSecond, r2))

\* One call of Chain::poll_read_vectored.
ChainPollReadVectored ==
    /\ cReads < MaxReads
    /\ \E bufs \in BufVecs :
       \E r1 \in FirstAnswers(SourceRead(first, Sum(bufs))) :
       \E r2 \in SecondAnswers(PollReadVectored(done_first, bufs, r1, NotPolled),
                               SourceRead(second, Sum(bufs))) :
          LET o == PollReadVectored(done_first, bufs, r1, r2)
          IN ChainEffect("poll_read_vectored", Sum(bufs), Sum(bufs) # 0, o, r1, r2,
                         Moved(o.touchedFirst, r1), Moved(o.touchedSecond, r2))

\* One call of Chain::poll_fill_buf: no byte leaves a source.
ChainPollFillBuf ==
    \E r1 \in FirstAnswers(SourceFill(first)) :
    \E r2 \in SecondAnswers(PollFillBuf(done_first, r1, NotPolled), SourceFill(second)) :
        LET o == PollFillBuf(done_first, r1, r2)
        IN ChainEffect("poll_fill_buf", 0, FALSE, o, r1, r2, 0, 0)

\* One call of Chain::consume(amt): the source it is forwarded to drops amt
\* bytes (all it has left when amt is more).
ChainConsume ==
    \E amt \in 0..MaxBuf :
        LET o == Consume(done_first)
        IN ChainEffect("consume", amt, amt # 0, o, NotPolled, NotPolled,
                       IF o.touchedFirst THEN amt ELSE 0,
                       IF o.touchedSecond THEN amt ELSE 0)

ChainNext ==
    \/ ChainPollRead
    \/ ChainPollReadVectored
    \/ ChainPollFillBuf
    \/ ChainConsume

ChainSpec == ChainInit /\ [][ChainNext]_vars

\* A composite of either kind: a Join-N with its operands, or a Chain with its
\* sources (a Chain behaviour has no operand, a Join behaviour has some).
CompositeInit == JoinInit \/ ChainInit

CompositeNext ==
    \/ Fut # <<>> /\ JoinNext
    \/ Fut = <<>> /\ ChainNext

CompositeSpec == CompositeInit /\ [][CompositeNext]_vars

\* ------------------------------------------------------------------ Chain claims
\* The bytes of the first source followed by those of the second.
Stream == [i \in 1..(cLen.first + cLen.second) |-> i]

\* C4: for sources that never answer Pending (nor an error), repeated poll_read
\* calls with a non-empty buffer deliver the bytes of the first source in order
\* and then those of the second, none lost, duplicated or reordered, and end of
\* data is reported only when all were delivered; with first = [1,2,3], second =
\* [4,5] and a 1-byte buffer the reads yield 1,2,3,4,5 and done_first is set
\* once, after the third read (in the fourth call).
C4_FirstThenSecondInOrder ==
    /\ cHistory # "mixed" =>
          /\ cDelivered = Take(Stream, Len(cDelivered))
          /\ cDelivered \o first \o second = Stream
          /\ cCall.result = Ok(0) => cDelivered = Stream
          /\ ~done_first => Len(cDelivered) <= cLen.first
          /\ done_first => Len(cDelivered) >= cLen.first
          /\ cFlips <= 1
    /\ (cHistory = "unit" /\ cLen = [first |-> 3, second |-> 2]) =>
          /\ cDelivered = Take(<<1, 2, 3, 4, 5>>, cReads)
          /\ done_first = (cReads >= 4)
          /\ cFlips = (IF cReads >= 4 THEN 1 ELSE 0)

\* C4 witness: the five bytes delivered by five 1-byte reads.
C4_Witness ==
    /\ cHistory = "unit"
    /\ cLen = [first |-> 3, second |-> 2]
    /\ cReads = 5
    /\ cDelivered = <<1, 2, 3, 4, 5>>
    /\ done_first
    /\ cFlips = 1

\* C5: a poll_read entered with done_first false in which the first source
\* returns Ok(0) for a non-empty buffer sets done_first, polls the second
\* source in the same call and returns what the second source returned; in
\* every other case it returns what the first source returned and leaves the
\* second source alone.
C5_SwitchWithinTheCall ==
    (cCall.op = "poll_read" /\ ~cCall.doneBefore) =>
        /\ cCall.touchedFirst
        /\ IF cCall.firstRes = Ok(0) /\ cCall.want # 0
           THEN /\ done_first
                /\ cCall.touchedSecond
                /\ cCall.secondRes.kind # "None"
                /\ cCall.result = cCall.secondRes
           ELSE /\ ~cCall.touchedSecond
                /\ cCall.result = cCall.firstRes

\* C5 witness: the call that crosses the boundary returns bytes of the second source.
C5_Witness ==
    /\ cCall.op = "poll_read"
    /\ ~cCall.doneBefore
    /\ cCall.firstRes = Ok(0)
    /\ cCall.want = 2
    /\ cCall.result = Ok(2)
    /\ done_first
    /\ cLen.first > 0

\* C6: a read with a zero-length destination (an empty buffer, or a vector
\* with no non-empty segment) entered with done_first false neither sets
\* done_first nor polls the second source.
C6_EmptyReadNeverSwitches ==
    (/\ cCall.op \in {"poll_read", "poll_read_vectored"}
     /\ ~cCall.doneBefore
     /\ cCall.want = 0) =>
        /\ ~done_first
        /\ ~cCall.touchedSecond
        /\ cCall.result = cCall.firstRes

\* C6 witness: the first source is exhausted and answers Ok(0) to an empty
\* buffer, and done_first stays false.
C6_Witness ==
    /\ cCall.op = "poll_read"
    /\ cCall.want = 0
    /\ cCall.firstRes = Ok(0)
    /\ first = <<>>
    /\ second # <<>>
    /\ ~done_first

\* C7: once done_first is true it stays true under every operation, and no
\* operation made from then on polls, fills from or consumes from the first source.
C7_DoneFirstIsFinal ==
    [][done_first => (/\ done_first'
                      /\ ~cCall'.touchedFirst
                      /\ cCall'.touchedSecond
                      /\ first' = first)]_vars

\* C7 witness: a consume made after the switch went to the second source.
C7_Witness ==
    /\ done_first
    /\ cCall.doneBefore
    /\ cCall.op = "consume"
    /\ cCall.want > 0
    /\ cCall.touchedSecond
    /\ Len(second) < cLen.second

\* C11: poll_read_vectored entered with done_first false sets done_first
\* exactly when the first source returns Ok(0) and some destination segment
\* is non-empty, and then polls the second source in the same call and
\* returns its answer; with the destination [2 bytes][2 bytes], a first
\* source of 3 bytes and a second of 3 bytes, successive reads yield 1,2,3
\* and then 4,5,6, no call returning Pending.
C11_VectoredSwitch ==
    /\ (cCall.op = "poll_read_vectored" /\ ~cCall.doneBefore) =>
          /\ done_first = (cCall.firstRes = Ok(0) /\ cCall.want # 0)
          /\ IF done_first
             THEN /\ cCall.touchedSecond
                  /\ cCall.secondRes.kind # "None"
                  /\ cCall.result = cCall.secondRes
             ELSE /\ ~cCall.touchedSecond
                  /\ cCall.result = cCall.firstRes
    /\ (cVectored /\ cLen = [first |-> 3, second |-> 3] /\ cReads > 0) =>
          /\ cCall.result.kind = "Ok"
          /\ cReads = 1 => cDelivered = <<1, 2, 3>> /\ cCall.result = Ok(3) /\ ~done_first
          /\ cReads >= 2 => cDelivered = <<1, 2, 3, 4, 5, 6>> /\ done_first
          /\ cReads = 2 => cCall.result = Ok(3)

\* C11 witness: the second vectored read crossed the boundary and returned 4,5,6.
C11_Witness ==
    /\ cVectored
    /\ cLen = [first |-> 3, second |-> 3]
    /\ cReads = 2
    /\ cCall.firstRes = Ok(0)
    /\ cCall.result = Ok(3)
    /\ cDelivered = <<1, 2, 3, 4, 5, 6>>
    /\ done_first

\* C12: poll_fill_buf entered with done_first false returns the first
\* source's buffer when it is non-empty; when the first source returns the
\* empty buffer it sets done_first and returns what the second source's
\* poll_fill_buf returns in the same call, so an empty buffer or Pending comes
\* back only when a source polled in the call returned it.
C12_FillBufSwitch ==
    (cCall.op = "poll_fill_buf" /\ ~cCall.doneBefore) =>
        /\ cCall.touchedFirst
        /\ (cCall.firstRes.kind = "Ok" /\ cCall.firstRes.n > 0) =>
              /\ cCall.result = cCall.firstRes
              /\ ~cCall.touchedSecond
              /\ ~done_first
        /\ cCall.firstRes = Ok(0) =>
              /\ done_first
              /\ cCall.touchedSecond
              /\ cCall.secondRes.kind # "None"
              /\ cCall.result = cCall.secondRes
        /\ cCall.result = Ok(0) => cCall.secondRes = Ok(0)
        /\ cCall.result = Pending =>
              (cCall.firstRes = Pending \/ cCall.secondRes = Pending)

\* C12 witness: the first source is exhausted and the call returns a
\* non-empty buffer of the second source.
C12_Witness ==
    /\ cCall.op = "poll_fill_buf"
    /\ ~cCall.doneBefore
    /\ cCall.firstRes = Ok(0)
    /\ cCall.result = Ok(2)
    /\ done_first
    /\ cLen.first > 0

\* C13: consume(n) forwards the whole of n to exactly one source, the first
\* when done_first is false on entry and the second when it is true, and
\* leaves the other source and done_first as they were.
C13_ConsumeOneSource ==
    [][cCall'.op = "consume" =>
          /\ done_first' = done_first
          /\ cCall'.touchedFirst # cCall'.touchedSecond
          /\ IF ~done_first
             THEN /\ cCall'.touchedFirst
                  /\ first' = Drop(first, cCall'.want)
                  /\ second' = second
             ELSE /\ cCall'.touchedSecond
                  /\ second' = Drop(second, cCall'.want)
                  /\ first' = first]_vars

\* C13 witness: after the switch a consume(2) took two bytes off the second
\* source.
C13_Witness ==
    /\ cCall.op = "consume"
    /\ cCall.doneBefore
    /\ cCall.want = 2
    /\ cLen.first > 0
    /\ Len(second) = cLen.second - 2

\* C15: no operation touches the second source before the first source has
\* signalled exhaustion (Ok(0) into a non-empty destination, or an empty fill
\* buffer) and done_first has been set: while done_first is false the second
\* source holds all its bytes, and a call that touches the second source
\* either found done_first set or got that signal from the first source.
C15_SecondOnlyAfterExhaustion ==
    /\ ~done_first =>
          /\ second = [i \in 1..cLen.second |-> cLen.first + i]
          /\ cFlips = 0
          /\ ~cCall.touchedSecond
    /\ cCall.touchedSecond =>
          /\ done_first
          /\ cFlips = 1
          /\ ~cCall.doneBefore =>
                /\ cCall.op \in {"poll_read", "poll_read_vectored", "poll_fill_buf"}
                /\ cCall.firstRes = Ok(0)
                /\ cCall.op = "poll_fill_buf" \/ cCall.nonempty

\* C15 witness: a vectored read took the first byte of the second source in
\* the call in which the first source, all read, signalled exhaustion.
C15_Witness ==
    /\ cCall.op = "poll_read_vectored"
    /\ ~cCall.doneBefore
    /\ cCall.firstRes = Ok(0)
    /\ cCall.touchedSecond
    /\ cLen.first = 2
    /\ cDelivered = <<1, 2, 3>>
    /\ done_first

\* C16: a composite returns Pending only when a child reported Pending in the
\* same call: a Join-N poll that returns Pending polled an operand that is
\* still not ready after the turn, and a Chain read or fill that returns
\* Pending got Pending from the source it polled last in the call.
C16_PendingOnlyFromChild ==
    /\ (jLog # <<>> /\ jLog[Len(jLog)].kind = "Pending") =>
          \E i \in DOMAIN Fut : i \in Range(jPolled) /\ Fut[i].tag = "Future"
    /\ (cCall.op \in {"poll_read", "poll_read_vectored", "poll_fill_buf"}
          /\ cCall.result = Pending) =>
          IF cCall.touchedSecond
          THEN cCall.secondRes = Pending
          ELSE cCall.touchedFirst /\ cCall.firstRes = Pending

\* C16 witness: a poll_read that switched to the second source returned the
\* Pending of the second source.
C16_Witness ==
    /\ cCall.op = "poll_read"
    /\ ~cCall.doneBefore
    /\ cCall.firstRes = Ok(0)
    /\ cCall.secondRes = Pending
    /\ cCall.result = Pending
    /\ done_first

\* The calls that poll a source.
PollingOps == {"poll_read", "poll_read_vectored", "poll_fill_buf"}

\* Whether the call described by c found done_first false and got an error
\* from the first source.
FirstFailed(c) == c.op \in PollingOps /\ ~c.doneBefore /\ c.firstRes.kind = "Err"

\* C17: when the first source returns an error from poll_read,
\* poll_read_vectored or poll_fill_buf while done_first is false, the call
\* returns that error unchanged, leaves done_first false and both sources as
\* they were, without touching the second; the next polling call polls the
\* first source again.
C17_FirstErrorPassesThrough ==
    [][ /\ FirstFailed(cCall') =>
              /\ cCall'.result = cCall'.firstRes
              /\ ~done_first'
              /\ ~cCall'.touchedSecond
              /\ first' = first
              /\ second' = second
              /\ cDelivered' = cDelivered
        /\ (FirstFailed(cCall) /\ cCall'.op \in PollingOps) =>
              /\ ~cCall'.doneBefore
              /\ cCall'.touchedFirst ]_vars

\* C17 witness: the first source failed with BrokenPipe in a vectored read
\* while it still held bytes, after an earlier read.
C17_Witness ==
    /\ cCall.op = "poll_read_vectored"
    /\ cCall.firstRes = Err("BrokenPipe")
    /\ cCall.result = Err("BrokenPipe")
    /\ ~done_first
    /\ first # <<>>
    /\ cReads = 2

\* C18: end of data is never reported early: a poll_read or poll_read_vectored
\* with a non-empty destination returns Ok(0) only if done_first is true on
\* return and the second source returned Ok(0) in that call, and poll_fill_buf
\* returns the empty buffer only if the second source returned the empty
\* buffer in that call.
C18_NoPrematureEnd ==
    /\ (cCall.op \in {"poll_read", "poll_read_vectored"} /\ cCall.nonempty
          /\ cCall.result = Ok(0)) =>
          /\ done_first
          /\ cCall.touchedSecond
          /\ cCall.secondRes = Ok(0)
    /\ (cCall.op = "poll_fill_buf" /\ cCall.result = Ok(0)) =>
          /\ cCall.touchedSecond
          /\ cCall.secondRes = Ok(0)

\* C18 witness: a vectored read into a non-empty destination returns Ok(0)
\* after every byte of two non-empty sources was delivered.
C18_Witness ==
    /\ cCall.op = "poll_read_vectored"
    /\ cCall.nonempty
    /\ cCall.result = Ok(0)
    /\ cCall.secondRes = Ok(0)
    /\ done_first
    /\ cLen.first > 0
    /\ cLen.second > 0
    /\ cDelivered = Stream

\* C20: when poll_fill_buf returned a buffer and consume(n) is the next
\* operation, the amount goes to the source whose buffer was returned: the
\* second when the fill polled it (also when that fill set done_first), the
\* first otherwise.
C20_ConsumeFollowsFill ==
    [][(cCall.op = "poll_fill_buf" /\ cCall.result.kind = "Ok"
          /\ cCall'.op = "consume") =>
          IF cCall.touchedSecond
          THEN /\ cCall'.touchedSecond
               /\ ~cCall'.touchedFirst
               /\ second' = Drop(second, cCall'.want)
               /\ first' = first
          ELSE /\ cCall'.touchedFirst
               /\ ~cCall'.touchedSecond
               /\ first' = Drop(first, cCall'.want)
               /\ second' = second]_vars

\* C20 witness: with no read call at all, a one-byte first source was
\* consumed, a fill switched to the second source, and consume(2) took two
\* bytes off the second source.
C20_Witness ==
    /\ cCall.op = "consume"
    /\ cCall.touchedSecond
    /\ cCall.want = 2
    /\ cReads = 0
    /\ cFlips = 1
    /\ cLen.first = 1
    /\ first = <<>>
    /\ Len(second) = cLen.second - 2

\* ------------------------------------------------------------------ spawn bridge
SpawnOps == {"spawn", "spawn_local", "spawn_with_handle", "spawn_local_with_handle"}

WithHandle(op) == op \in {"spawn_with_handle", "spawn_local_with_handle"}

\* Spawn::spawn_obj / LocalSpawn::spawn_local_obj of the injected facility:
\* the task is launched, or rejected with an error.
LaunchAnswers ==
    {[ok |-> TRUE, err |-> "none"]} \cup {[ok |-> FALSE, err |-> e] : e \in SpawnErrors}

\* SpawnExt::spawn and LocalSpawnExt::spawn_local return what the facility answered.
spawn(launch) == launch

\* A spawn_with_handle that drops spawn's result and returns Ok(handle).
spawn_with_handleKeepsHandle(launch) == [ok |-> TRUE, err |-> "none", handle |-> TRUE]

\* SpawnExt::spawn_with_handle and LocalSpawnExt::spawn_local_with_handle:
\* `self.spawn(future)?; Ok(handle)`.
spawn_with_handle(launch) ==
    LET r == spawn(launch)
    IN IF r.ok THEN [ok |-> TRUE, err |-> "none", handle |-> TRUE]
       ELSE [ok |-> FALSE, err |-> r.err, handle |-> FALSE]

\* The caller's future launched as it is, the wrapper dropped.
SpawnsOriginal(op) == FALSE

\* Whether the task handed to the facility is the wrapper made by
\* remote_handle(), which sends the output into the channel: `let (future,
\* handle) = future.remote_handle(); self.spawn(future)`.
SpawnsWrapper(op) == WithHandle(op)

\* The sending half of the channel lives in the wrapper while it runs.
SenderAlive == sTask.state = "running" /\ sTask.wrapped

\* The receiving half lives in the handle.
ReceiverAlive == sHandle \in {"held", "resolved"}

\* One poll of the spawned future itself.
InnerPoll(task) ==
    IF task.rem > 1 THEN [task EXCEPT !.rem = @ - 1]
    ELSE [task EXCEPT !.rem = 0, !.state = "completed"]

\* A wrapper that makes no progress once the handle is gone.
RemotePollWaitsForHandle(task, chan, receiver, seesCancel) ==
    IF ~receiver THEN [task |-> task, chan |-> chan]
    ELSE LET t == InnerPoll(task)
         IN [task |-> t,
             chan |-> IF t.state = "completed"
                      THEN [chan EXCEPT !.full = TRUE, !.value = t.out, !.sent = @ + 1]
                      ELSE chan]

\* One poll of the wrapper made by remote_handle(): when it sees that the
\* handle is gone it finishes without polling the future; otherwise it polls
\* the future and, when that is ready, sends the output, ignoring the error
\* of a send to a dropped handle (seesCancel is false when the handle is
\* dropped after the wrapper looked).
RemotePoll(task, chan, receiver, seesCancel) ==
    IF ~receiver /\ seesCancel
    THEN [task |-> [task EXCEPT !.state = "cancelled"], chan |-> chan]
    ELSE LET t == InnerPoll(task)
         IN [task |-> t,
             chan |-> IF t.state = "completed" /\ receiver
                      THEN [chan EXCEPT !.full = TRUE, !.value = t.out, !.sent = @ + 1]
                      ELSE chan]

\* One poll of the observer handle: the value if the channel holds one,
\* Pending while the sender lives, and a panic on a closed, empty channel.
RemoteHandlePoll(chan, sender) ==
    IF chan.full THEN [kind |-> "Ready", value |-> chan.value]
    ELSE IF sender THEN [kind |-> "Pending", value |-> 0]
    ELSE [kind |-> "Panic", value |-> 0]

SpawnInit ==
    /\ SpawnIdle
    /\ JoinIdle
    /\ ChainIdle

\* One call of spawn, spawn_local, spawn_with_handle or spawn_local_with_handle
\* with a future that is ready at its d-th poll with output v (the unit
\* value, written 0, for spawn and spawn_local).
SpawnCall ==
    /\ sCall.op = "none"
    /\ \E op \in SpawnOps, launch \in LaunchAnswers, d \in 1..MaxDelay :
       \E v \in (IF WithHandle(op) THEN Outputs ELSE {0}) :
          LET r == IF WithHandle(op)
                   THEN spawn_with_handle(launch)
                   ELSE [ok |-> spawn(launch).ok, err |-> spawn(launch).err,
                         handle |-> FALSE]
          IN /\ sCall' = [op |-> op, launch |-> launch, result |-> r]
             /\ sTask' = IF launch.ok
                         THEN [state |-> "running", wrapped |-> SpawnsWrapper(op),
                               rem |-> d, out |-> v, panicked |-> FALSE]
                         ELSE NoTask
             /\ sHandle' = IF r.handle THEN "held" ELSE "none"
    /\ UNCHANGED <<sChan, hLog, joinVars, chainVars>>

\* The facility polls the spawned task once.
SpawnTaskPoll ==
    /\ sTask.state = "running"
    /\ \/ /\ sTask.wrapped
          /\ \E seesCancel \in (IF ReceiverAlive THEN {FALSE} ELSE BOOLEAN) :
                LET r == RemotePoll(sTask, sChan, ReceiverAlive, seesCancel)
                IN sTask' = r.task /\ sChan' = r.chan
       \/ /\ ~sTask.wrapped
          /\ sTask' = InnerPoll(sTask)
          /\ UNCHANGED sChan
    /\ UNCHANGED <<sCall, sHandle, hLog, joinVars, chainVars>>

\* The holder of the observer handle polls it once.
SpawnHandlePoll ==
    /\ ReceiverAlive
    /\ Len(hLog) < MaxHandlePolls
    /\ LET r == RemoteHandlePoll(sChan, SenderAlive)
       IN /\ hLog' = Append(hLog, [kind |-> r.kind, value |-> r.value,
                                   done |-> sTask.state = "completed"])
          /\ sChan' = IF r.kind = "Ready"
                      THEN [sChan EXCEPT !.full = FALSE, !.received = @ + 1]
                      ELSE sChan
          /\ sHandle' = IF r.kind = "Ready" THEN "resolved" ELSE sHandle
    /\ UNCHANGED <<sCall, sTask, joinVars, chainVars>>

\* The holder of the observer handle drops it; a value still in the channel
\* is dropped with it.
SpawnHandleDrop ==
    /\ ReceiverAlive
    /\ sHandle' = "dropped"
    /\ sChan' = [sChan EXCEPT !.full = FALSE]
    /\ UNCHANGED <<sCall, sTask, hLog, joinVars, chainVars>>

SpawnNext ==
    \/ SpawnCall
    \/ SpawnTaskPoll
    \/ SpawnHandlePoll
    \/ SpawnHandleDrop

SpawnSpec == SpawnInit /\ [][SpawnNext]_vars

\* The facility keeps polling a task that is not finished.
FairSpawnSpec == SpawnSpec /\ WF_vars(SpawnTaskPoll)

\* ------------------------------------------------------------------ spawn claims
\* C8: when the facility rejects the launch, spawn and spawn_local return
\* that error to the caller, and spawn_with_handle and
\* spawn_local_with_handle return the same error and no observer handle.
C8_LaunchErrorReturned ==
    (sCall.op # "none" /\ ~sCall.launch.ok) =>
        /\ ~sCall.result.ok
        /\ sCall.result.err = sCall.launch.err
        /\ ~sCall.result.handle
        /\ sHandle = "none"
        /\ hLog = <<>>
        /\ sTask = NoTask

\* C8 witness: spawn_local_with_handle on a facility that is shutting down.
C8_Witness ==
    /\ sCall.op = "spawn_local_with_handle"
    /\ sCall.launch = [ok |-> FALSE, err |-> "Shutdown"]
    /\ sCall.result = [ok |-> FALSE, err |-> "Shutdown", handle |-> FALSE]

ReadyPolls == {k \in 1..Len(hLog) : hLog[k].kind = "Ready"}

\* C9: after a successful spawn with handle, the handle is Pending until the
\* spawned task has completed, its first poll after the task completed with
\* value v resolves to v, and it resolves once: one value goes through the
\* channel and is received once, whatever the interleaving of the task's
\* progress and the handle's polls.
C9_HandleResolvesOnce ==
    /\ sChan.sent <= 1
    /\ sChan.received <= sChan.sent
    /\ Cardinality(ReadyPolls) <= 1
    /\ (sTask.state = "completed" /\ WithHandle(sCall.op) /\ ReceiverAlive) =>
          sChan.sent = 1
    /\ \A k \in 1..Len(hLog) :
          /\ ~hLog[k].done => hLog[k].kind = "Pending"
          /\ hLog[k].done =>
                hLog[k] = IF \E j \in 1..(k - 1) : hLog[j].done
                          THEN [kind |-> "Panic", value |-> 0, done |-> TRUE]
                          ELSE [kind |-> "Ready", value |-> sTask.out, done |-> TRUE]

\* C9 witness: the handle is Pending, then resolves to 42.
C9_Witness ==
    /\ sCall.op = "spawn_with_handle"
    /\ sTask.out = 42
    /\ Len(hLog) = 2
    /\ hLog[1].kind = "Pending"
    /\ hLog[2] = [kind |-> "Ready", value |-> 42, done |-> TRUE]
    /\ sChan.sent = 1
    /\ sChan.received = 1

TaskFinished == sTask.state \in {"completed", "cancelled"}

====
